---- MODULE Spec2Model ----
(***************************************************************************)
(* Model of src/app.py (Customized Nutrition System): the body-metric      *)
(* functions calculate_calories and calculate_bmi, and generate_meal_plan, *)
(* the per-meal recipe selection over the module-level DataFrame `data`.   *)
(*                                                                         *)
(* Quantities are fixed-point integers.  Grams and kcal inside             *)
(* generate_meal_plan are counted in units of 1/Scale, which makes every   *)
(* product and quotient of lines 109-121 exact.  A DataFrame is a record   *)
(* [columns, rows]; a frame derived from `data` (potential_recipes,        *)
(* selected_recipes) is the sequence of the index labels of its rows, in   *)
(* order, the labels being the positions 1..Len(data.rows).                *)
(***************************************************************************)
EXTENDS Integers, Sequences, FiniteSets, TLC

VARIABLES
    data,                \* the shared DataFrame passed to generate_meal_plan
    sort_ties,           \* how this build's sort_values orders equal scores
    pc,                  \* per call: "idle", "score", "select", "done", "error"
    calorie_needs,       \* per call: the argument calorie_needs
    meal_calories,       \* per call: dict meal -> calories
    macro_targets,       \* per call: dict meal -> protein/carbs/fat targets
    meal,                \* per call: position of the loop over macro_targets
    used_recipes,        \* per call: set of recipe ids already selected
    recipe_usage_count,  \* per call: dict recipe id -> count
    meal_plan,           \* per call: dict meal -> selected recipe ids
    result,              \* per call: what the call returned or raised
    candidates,          \* history: per call and meal, shape[0] tested on line 145
    score_by,            \* history: the call and meal that last assigned data["score"]
    ranked_by,           \* history: per call, whose score column its last ranking read
    body                 \* the last body-metric function call and its result

vars == <<data, sort_ties, pc, calorie_needs, meal_calories, macro_targets, meal,
          used_recipes, recipe_usage_count, meal_plan, result, candidates,
          score_by, ranked_by, body>>

runVars == <<data, sort_ties, pc, calorie_needs, meal_calories, macro_targets, meal,
             used_recipes, recipe_usage_count, meal_plan, result, candidates,
             score_by, ranked_by>>

---------------------------------------------------------------------------
(* Bounds of the model. *)

\* Largest recipe pool explored (pools of 0..MaxPool rows).
MaxPool == 30

\* The two calls of generate_meal_plan that are modelled.
Runs == {1, 2}

\* Calorie targets passed to generate_meal_plan (kcal).
CalorieInputs == {1780, 2280}

---------------------------------------------------------------------------
(* Small helpers. *)

Abs(x) == IF x < 0 THEN -x ELSE x

Min(a, b) == IF a < b THEN a ELSE b

\* dict.get(k, 0)
Get(d, k) == IF k \in DOMAIN d THEN d[k] ELSE 0

EmptyDict == [k \in {} |-> 0]

Range(s) == {s[i] : i \in DOMAIN s}

\* All orderings of the finite set S (sequences holding each element once).
RECURSIVE Orderings(_)
Orderings(S) ==
    IF S = {} THEN {<<>>}
    ELSE UNION {{<<x>> \o t : t \in Orderings(S \ {x})} : x \in S}

\* One ordering of S, used only where the order cannot matter.
RECURSIVE SomeOrdering(_)
SomeOrdering(S) ==
    IF S = {} THEN <<>>
    ELSE LET x == CHOOSE y \in S : \A z \in S : y <= z
         IN <<x>> \o SomeOrdering(S \ {x})

---------------------------------------------------------------------------
(* The recipe table. *)

\* Fixed-point unit: 1 gram (or kcal) = Scale units.  The shares and macro
\* fractions are tenths and the energy densities are 4 and 9, so tenths of
\* tenths divided by 4 or by 9 are whole numbers of units.
Scale == 10 * 10 * 4 * 9

\* The columns of `data` that generate_meal_plan reads (the other ten of
\* columns_to_keep are carried along and never read or written).
columns_to_keep ==
    {"recipeid", "proteincontent", "carbohydratecontent", "saturatedfatcontent"}

\* Shapes of the nutrient values of the explored pools.
Patterns == {"graded", "flat"}

\* Row i of a pool: identifiers are unique and differ from the row labels.
MakeRecipe(i, pat) ==
    [recipeid            |-> 100 + i,
     proteincontent      |-> Scale * (IF pat = "graded" THEN 20 + i ELSE 30),
     carbohydratecontent |-> Scale * (IF pat = "graded" THEN 50 + 2 * i ELSE 75),
     saturatedfatcontent |-> Scale * (IF pat = "graded" THEN 10 + (i \div 2) ELSE 20)]

MakePool(n, pat) ==
    [columns |-> columns_to_keep, rows |-> [i \in 1..n |-> MakeRecipe(i, pat)]]

Pools == {MakePool(n, pat) : n \in 0..MaxPool, pat \in Patterns}

RecipeId(i) == data.rows[i].recipeid

---------------------------------------------------------------------------
(* generate_meal_plan: calorie split and macro targets. *)

\* The keys of meal_calories and macro_targets, in insertion order.
Meals == <<"breakfast", "lunch", "dinner">>

RecipesPerMeal == 5

TopCandidates == 20

MaxUsage == 2

\* Share of the day's calories per meal, in tenths.
ShareTenths(m) == IF m = "lunch" THEN 4 ELSE 3

\* meal_calories[m] = calorie_needs * 0.3 / 0.4 / 0.3, in units.
MealCalories(cal, m) == (cal * Scale * ShareTenths(m)) \div 10

\* MacroTargets with a fault: fat counted at 4 kcal per gram like the others.
MacroTargetsFatAt4(calories) ==
    [protein |-> ((calories * 2) \div 10) \div 4,
     carbs   |-> ((calories * 5) \div 10) \div 4,
     fat     |-> ((calories * 3) \div 10) \div 4]

\* macro_targets[m], in units of 1/Scale gram.
MacroTargets(calories) ==
    [protein |-> ((calories * 2) \div 10) \div 4,
     carbs   |-> ((calories * 5) \div 10) \div 4,
     fat     |-> ((calories * 3) \div 10) \div 9]

\* data["score"] for one row.
Score(row, targets) ==
    Abs(row.proteincontent - targets.protein)
    + Abs(row.carbohydratecontent - targets.carbs)
    + Abs(row.saturatedfatcontent - targets.fat)

---------------------------------------------------------------------------
(* generate_meal_plan: ranking, filtering, sampling. *)

\* How a build may order rows of equal score: sort_values uses its default
\* kind (quicksort), which keeps no promise about ties; a given build orders
\* them the same way every time.
TieOrders == {"catalog", "reverse"}

\* Row i comes before row j in data.sort_values("score").
Precedes(i, j) ==
    \/ data.rows[i].score < data.rows[j].score
    \/ /\ data.rows[i].score = data.rows[j].score
       /\ IF sort_ties = "catalog" THEN i < j ELSE i > j

\* data.sort_values("score"), as the sequence of row labels.
InPlace(place) == [k \in DOMAIN place |-> CHOOSE i \in DOMAIN place : place[i] = k]

SortValues ==
    InPlace([i \in DOMAIN data.rows |->
               1 + Cardinality({j \in DOMAIN data.rows : Precedes(j, i)})])

\* frame.head(k)
HeadRows(s, k) == SubSeq(s, 1, Min(k, Len(s)))

\* Potential with a fault: line 142 left out, used recipes stay candidates.
PotentialKeepingUsed(r) == HeadRows(SortValues, TopCandidates)

\* Lines 139-142: the best-scoring rows whose recipe is not in used_recipes.
Potential(r) ==
    SelectSeq(HeadRows(SortValues, TopCandidates),
              LAMBDA i : RecipeId(i) \notin used_recipes[r])

\* data[data["recipeid"].isin(used_recipes)]: the rows sample() draws from.
UsedRows(r) == {i \in DOMAIN data.rows : RecipeId(i) \in used_recipes[r]}

\* Lines 152-153: every row of potential_recipes adds one to its recipe's count.
Counted(count, potential) ==
    LET ids == {RecipeId(potential[k]) : k \in DOMAIN potential}
    IN [id \in DOMAIN count \cup ids |->
          Get(count, id)
          + Cardinality({k \in DOMAIN potential : RecipeId(potential[k]) = id})]

\* WithinUsage with a fault: line 156 left out, no cap on the count.
WithinUsageNoCap(count, potential) == potential

\* Line 156: the rows whose recipe has been counted at most MaxUsage times.
WithinUsage(count, potential) ==
    SelectSeq(potential, LAMBDA i : count[RecipeId(i)] <= MaxUsage)

\* RandomState(42).permutation(n)[:5]: the positions (from 0) that
\* sample(n=5, random_state=42) takes from a frame of n rows (MT19937 seeded
\* with 42, numpy's legacy shuffle).
SamplePositions(n) ==
    CASE n = 5  -> <<1, 4, 2, 0, 3>>
      [] n = 6  -> <<0, 1, 5, 2, 4>>
      [] n = 7  -> <<0, 1, 5, 2, 4>>
      [] n = 8  -> <<1, 5, 0, 7, 2>>
      [] n = 9  -> <<7, 1, 5, 0, 8>>
      [] n = 10 -> <<8, 1, 5, 0, 7>>
      [] n = 11 -> <<5, 0, 9, 10, 2>>
      [] n = 12 -> <<10, 9, 0, 8, 5>>
      [] n = 13 -> <<11, 9, 0, 8, 5>>
      [] n = 14 -> <<9, 11, 0, 12, 5>>
      [] n = 15 -> <<9, 11, 0, 13, 5>>
      [] n = 16 -> <<0, 1, 5, 14, 13>>
      [] n = 17 -> <<0, 1, 5, 15, 11>>
      [] n = 18 -> <<0, 1, 8, 5, 3>>
      [] n = 19 -> <<0, 5, 11, 1, 8>>
      [] n = 20 -> <<0, 17, 15, 1, 8>>

\* Line 159: potential_recipes.sample(n=5, random_state=42), for a frame of
\* at least 5 rows.
SeededSample(frame) ==
    [k \in 1..RecipesPerMeal |-> frame[SamplePositions(Len(frame))[k] + 1]]

\* The recipe ids of a frame, in row order.
Ids(frame) == [k \in DOMAIN frame |-> RecipeId(frame[k])]

---------------------------------------------------------------------------
(* generate_meal_plan as a state machine: one call per element of Runs. *)

Finished == {"done", "error"}

NoMeals == [m \in {} |-> <<>>]

NoBody == [fn |-> "none"]

Init ==
    /\ data \in Pools
    /\ sort_ties \in TieOrders
    /\ pc = [r \in Runs |-> "idle"]
    /\ calorie_needs = [r \in Runs |-> 0]
    /\ meal_calories = [r \in Runs |-> NoMeals]
    /\ macro_targets = [r \in Runs |-> NoMeals]
    /\ meal = [r \in Runs |-> 0]
    /\ used_recipes = [r \in Runs |-> {}]
    /\ recipe_usage_count = [r \in Runs |-> EmptyDict]
    /\ meal_plan = [r \in Runs |-> NoMeals]
    /\ result = [r \in Runs |-> [kind |-> "none"]]
    /\ candidates = [r \in Runs |-> NoMeals]
    /\ score_by = <<0, 0>>
    /\ ranked_by = [r \in Runs |-> <<0, 0>>]
    /\ body = NoBody

\* Lines 107-128: the call binds calorie_needs, builds meal_calories and
\* macro_targets and creates the empty plan, set and dict.
CallWith(r, cal) ==
    /\ pc[r] = "idle"
    /\ calorie_needs' = [calorie_needs EXCEPT ![r] = cal]
    /\ meal_calories' = [meal_calories EXCEPT ![r] =
           [m \in Range(Meals) |-> MealCalories(cal, m)]]
    /\ macro_targets' = [macro_targets EXCEPT ![r] =
           [m \in Range(Meals) |-> MacroTargets(MealCalories(cal, m))]]
    /\ meal' = [meal EXCEPT ![r] = 1]
    /\ used_recipes' = [used_recipes EXCEPT ![r] = {}]
    /\ recipe_usage_count' = [recipe_usage_count EXCEPT ![r] = EmptyDict]
    /\ meal_plan' = [meal_plan EXCEPT ![r] = NoMeals]
    /\ pc' = [pc EXCEPT ![r] = "score"]
    /\ UNCHANGED <<data, sort_ties, result, candidates, score_by, ranked_by, body>>

Call(r) == \E cal \in CalorieInputs : CallWith(r, cal)

\* Lines 130-136: the loop takes the next meal and assigns the column
\* data["score"] of the shared frame (added on first use, overwritten after).
ScoreSlot(r) ==
    /\ pc[r] = "score"
    /\ data' = [columns |-> data.columns \cup {"score"},
                rows    |-> [i \in DOMAIN data.rows |->
                               [c \in DOMAIN data.rows[i] \cup {"score"} |->
                                  IF c = "score"
                                  THEN Score(data.rows[i], macro_targets[r][Meals[meal[r]]])
                                  ELSE data.rows[i][c]]]]
    /\ score_by' = <<r, meal[r]>>
    /\ pc' = [pc EXCEPT ![r] = "select"]
    /\ UNCHANGED <<sort_ties, calorie_needs, meal_calories, macro_targets, meal,
                   used_recipes, recipe_usage_count, meal_plan, result, candidates,
                   ranked_by, body>>

\* An exception leaves generate_meal_plan: the frame of the call is gone and
\* the caller holds no plan.  `data` keeps what was written to it.
Raise(r) ==
    /\ pc' = [pc EXCEPT ![r] = "error"]
    /\ result' = [result EXCEPT ![r] = [kind |-> "ValueError"]]
    /\ meal' = [meal EXCEPT ![r] = 0]
    /\ used_recipes' = [used_recipes EXCEPT ![r] = {}]
    /\ recipe_usage_count' = [recipe_usage_count EXCEPT ![r] = EmptyDict]
    /\ meal_plan' = [meal_plan EXCEPT ![r] = NoMeals]
    /\ candidates' = [candidates EXCEPT ![r] = NoMeals]

\* Lines 152-166 on the frame potential_recipes: count, filter by count, draw
\* the 5 rows with the fixed seed (ValueError when fewer than 5 rows are
\* left), extend used_recipes, store the meal, and return after the last meal.
Resolve(r, fresh, potential) ==
    LET count    == Counted(recipe_usage_count[r], potential)
        kept     == WithinUsage(count, potential)
        selected == SeededSample(kept)
        m        == Meals[meal[r]]
        plan     == [k \in DOMAIN meal_plan[r] \cup {m} |->
                       IF k = m THEN Ids(selected) ELSE meal_plan[r][k]]
    IN IF Len(kept) < RecipesPerMeal
       THEN Raise(r)
       ELSE /\ recipe_usage_count' = [recipe_usage_count EXCEPT ![r] = count]
            /\ used_recipes' =
                   [used_recipes EXCEPT ![r] = @ \cup Range(Ids(selected))]
            /\ meal_plan' = [meal_plan EXCEPT ![r] = plan]
            /\ candidates' = [candidates EXCEPT ![r] =
                   [k \in DOMAIN candidates[r] \cup {m} |->
                      IF k = m THEN fresh ELSE candidates[r][k]]]
            /\ IF meal[r] < Len(Meals)
               THEN /\ meal' = [meal EXCEPT ![r] = @ + 1]
                    /\ pc' = [pc EXCEPT ![r] = "score"]
                    /\ UNCHANGED result
               ELSE /\ meal' = meal
                    /\ pc' = [pc EXCEPT ![r] = "done"]
                    /\ result' = [result EXCEPT ![r] = [kind |-> "plan", plan |-> plan]]

\* The sets of rows sample(needed) can return from the used rows (line 148).
Draws(r, needed) == {S \in SUBSET UsedRows(r) : Cardinality(S) = needed}

\* Lines 152-156 applied to the frame potential_recipes.
Kept(r, potential) ==
    WithinUsage(Counted(recipe_usage_count[r], potential), potential)

\* Lines 139-166 for the current meal.  With fewer than 5 unused candidates,
\* line 148 draws the missing rows from the used ones with an unseeded
\* sample(): any rows, in any order (ValueError when there are too few used
\* rows).  Whether line 159 then raises depends on which rows were drawn and
\* not on their order, so the rows are chosen first and the order after.
SelectSlot(r) ==
    /\ pc[r] = "select"
    /\ ranked_by' = [ranked_by EXCEPT ![r] = score_by]
    /\ UNCHANGED <<data, sort_ties, calorie_needs, meal_calories, macro_targets,
                   score_by, body>>
    /\ \E potential \in {Potential(r)} :
       LET fresh     == Len(potential)
           needed    == RecipesPerMeal - fresh
           enough(S) ==
               Len(Kept(r, potential \o SomeOrdering(S))) >= RecipesPerMeal
       IN IF fresh >= RecipesPerMeal
          THEN Resolve(r, fresh, potential)
          ELSE IF Cardinality(UsedRows(r)) < needed
          THEN Raise(r)
          ELSE \/ /\ {S \in Draws(r, needed) : ~enough(S)} # {}
                  /\ Raise(r)
               \/ \E drawn \in {S \in Draws(r, needed) : enough(S)} :
                    \E additional \in Orderings(drawn) :
                      Resolve(r, fresh, potential \o additional)

\* One call of generate_meal_plan.
Next == Call(1) \/ ScoreSlot(1) \/ SelectSlot(1)

Spec == Init /\ [][Next]_vars

\* The same call made again, on the same `data`, after the first has
\* returned or raised.
CallAgain(r) ==
    /\ pc[1] \in Finished
    /\ CallWith(r, calorie_needs[1])

NextTwice ==
    \/ Call(1) \/ ScoreSlot(1) \/ SelectSlot(1)
    \/ CallAgain(2) \/ ScoreSlot(2) \/ SelectSlot(2)

SpecTwice == Init /\ [][NextTwice]_vars

\* Two calls on the same `data`, their steps interleaved, on an empty pool,
\* a pool that needs line 148 and the largest pool.
ConcPoolSizes == {0, 12, MaxPool}

InitConc == Init /\ Len(data.rows) \in ConcPoolSizes

NextConc == \E r \in Runs : Call(r) \/ ScoreSlot(r) \/ SelectSlot(r)

SpecConc == InitConc /\ [][NextConc]_vars

---------------------------------------------------------------------------
(* The body-metric functions.  Weights are hundredths of a kg, heights are *)
(* cm, energies are hundredths of a kcal; a BMI is the exact fraction      *)
(* num/den.                                                                *)

\* Finest BMI explored on the grid of hundredths: 0.00 .. MaxBmiGrid/100.
MaxBmiGrid == 10000

Goals == {"weight loss", "maintenance", "muscle gain", "keto", "Weight loss"}

KnownGoals == {"weight loss", "maintenance", "muscle gain"}

\* Lines 75-78: Mifflin-St Jeor, in hundredths of a kcal.
Bmr(age, gender, weight, height) ==
    IF gender = "male"
    THEN 10 * weight + 625 * height - 500 * age + 500
    ELSE 10 * weight + 625 * height - 500 * age - 16100

\* Lines 73-86: what calculate_calories returns.
calculate_calories(age, gender, weight, height, goal) ==
    LET bmr == Bmr(age, gender, weight, height)
    IN IF goal = "weight loss" THEN [kind |-> "value", value |-> bmr - 50000]
       ELSE IF goal = "muscle gain" THEN [kind |-> "value", value |-> bmr + 50000]
       ELSE [kind |-> "value", value |-> bmr]

\* Lines 91-92: bmi = weight / (height / 100) ** 2, as a fraction.
Bmi(weight, height) == [num |-> weight * 100, den |-> height * height]

\* bmi < tenths/10, for a fraction bmi.
Below(bmi, tenths) == bmi.num * 10 < tenths * bmi.den

\* Lines 95-102: the chain of comparisons.
BmiCategory(bmi) ==
    IF Below(bmi, 185) THEN "Underweight"
    ELSE IF ~Below(bmi, 185) /\ Below(bmi, 249) THEN "Normal weight"
    ELSE IF ~Below(bmi, 250) /\ Below(bmi, 299) THEN "Overweight"
    ELSE "Obesity"

\* Lines 89-104: what calculate_bmi returns.
calculate_bmi(weight, height) ==
    [bmi |-> Bmi(weight, height), bmi_category |-> BmiCategory(Bmi(weight, height))]

\* Weight and height pairs: every BMI of the grid (height 100 cm makes the
\* BMI equal to the weight in kg), and two ordinary bodies.
BmiInputs ==
    {<<w, 100>> : w \in 0..MaxBmiGrid} \cup {<<7000, 175>>, <<8080, 180>>}

\* Line 186: one call of calculate_bmi.
BmiCall ==
    /\ body = NoBody
    /\ \E in \in BmiInputs :
         body' = [fn       |-> "calculate_bmi",
                  weight   |-> in[1],
                  height   |-> in[2],
                  returned |-> calculate_bmi(in[1], in[2])]
    /\ UNCHANGED runVars

\* Line 187: one call of calculate_calories.
CaloriesCall ==
    /\ body = NoBody
    /\ \E age \in {2, 30, 120}, gender \in {"male", "female"},
          weight \in {1000, 7000, 8000, 30000}, height \in {50, 175, 180, 250},
          goal \in Goals :
         body' = [fn       |-> "calculate_calories",
                  age      |-> age,
                  gender   |-> gender,
                  weight   |-> weight,
                  height   |-> height,
                  goal     |-> goal,
                  returned |-> calculate_calories(age, gender, weight, height, goal)]
    /\ UNCHANGED runVars

InitBody == Init /\ data = MakePool(0, "flat") /\ sort_ties = "catalog"

NextBody == BmiCall \/ CaloriesCall

SpecBody == InitBody /\ [][NextBody]_vars

---------------------------------------------------------------------------
(* Properties. *)

\* The meals of a plan whose selected list holds recipe id.
SlotsWith(plan, id) == {m \in DOMAIN plan : id \in Range(plan[m])}

AllIds == {RecipeId(i) : i \in DOMAIN data.rows}

\* The meals committed so far by call r, as positions of Meals.
Committed(r) == {j \in DOMAIN Meals : Meals[j] \in DOMAIN meal_plan[r]}

\* C1: in any plan generate_meal_plan returns, no recipe identifier is in
\* the selected list of more than 2 of the 3 meals.
C1_DiversityCap ==
    \A r \in Runs :
      result[r].kind = "plan" =>
        \A id \in AllIds : Cardinality(SlotsWith(result[r].plan, id)) <= 2

\* C1 witness: a returned plan in which some recipe is in exactly 2 meals.
C1_Witness ==
    /\ result[1].kind = "plan"
    /\ \E id \in AllIds : Cardinality(SlotsWith(result[1].plan, id)) = 2

\* C2: with at least 5 distinct recipes in the pool the call never fails, and
\* every meal it commits holds exactly 5 recipes.
C2_BackfillNeverFails ==
    \A r \in Runs :
      Cardinality(AllIds) >= RecipesPerMeal =>
        /\ pc[r] # "error"
        /\ \A m \in DOMAIN meal_plan[r] : Len(meal_plan[r][m]) = RecipesPerMeal

\* The recipe identifiers of each meal of what a call returned.
Outcome(res) ==
    IF res.kind = "plan"
    THEN [kind |-> "plan", plan |-> [m \in DOMAIN res.plan |-> Range(res.plan[m])]]
    ELSE res

\* C3: two calls with the same calorie target on the same pool end the same
\* way, with the same recipe identifiers in every meal.
C3_Deterministic ==
    (/\ pc[1] \in Finished
     /\ pc[2] \in Finished
     /\ calorie_needs[1] = calorie_needs[2])
    => Outcome(result[1]) = Outcome(result[2])

\* C4: the pool passed in keeps its records and its fields at every step of
\* a call, and no call ranks on a score column another call wrote.
C4_PoolReadOnly ==
    /\ data \in Pools
    /\ \A r \in Runs : ranked_by[r][1] \in {0, r}

\* C5: on an empty pool the call ends in the error EmptyCatalog, with no
\* meal scored or committed; it returns no plan.
C5_EmptyCatalog ==
    Len(data.rows) = 0 =>
      \A r \in Runs :
        /\ "score" \notin data.columns
        /\ score_by[1] # r
        /\ meal_plan[r] = NoMeals
        /\ recipe_usage_count[r] = EmptyDict
        /\ result[r].kind \in {"none", "EmptyCatalog"}
        /\ pc[r] = "error" => result[r].kind = "EmptyCatalog"

\* C6: calculate_calories returns bmr-500, bmr+500 and bmr for the three
\* known goals and yields InvalidGoal for every other goal.
C6_InvalidGoal ==
    body.fn = "calculate_calories" =>
      LET bmr == Bmr(body.age, body.gender, body.weight, body.height)
      IN /\ body.goal = "weight loss" =>
              body.returned = [kind |-> "value", value |-> bmr - 50000]
         /\ body.goal = "muscle gain" =>
              body.returned = [kind |-> "value", value |-> bmr + 50000]
         /\ body.goal = "maintenance" =>
              body.returned = [kind |-> "value", value |-> bmr]
         /\ body.goal \notin KnownGoals => body.returned.kind = "InvalidGoal"

\* C7: for every BMI of the grid the category is Underweight iff bmi < 18.5,
\* Normal weight iff 18.5 <= bmi < 25, Overweight iff 25 <= bmi < 30 and
\* Obesity iff bmi >= 30.
C7_BmiContiguous ==
    body.fn = "calculate_bmi" =>
      LET bmi      == body.returned.bmi
          category == body.returned.bmi_category
      IN /\ category = "Underweight" <=> Below(bmi, 185)
         /\ category = "Normal weight" <=> (~Below(bmi, 185) /\ Below(bmi, 250))
         /\ category = "Overweight" <=> (~Below(bmi, 250) /\ Below(bmi, 300))
         /\ category = "Obesity" <=> ~Below(bmi, 300)

\* C8: the three meal calorie amounts sum to the total, and for every meal
\* protein*4 + carbs*4 + fat*9 equals the meal's calories, the targets being
\* 20%, 50% and 30% of the meal's calories over 4, 4 and 9 kcal per gram.
C8_MacroSplit ==
    \A r \in Runs :
      pc[r] \notin {"idle", "error"} =>
        /\ meal_calories[r]["breakfast"] + meal_calories[r]["lunch"]
             + meal_calories[r]["dinner"] = calorie_needs[r] * Scale
        /\ \A m \in Range(Meals) :
             LET t == macro_targets[r][m]
                 c == meal_calories[r][m]
             IN /\ t.protein * 4 + t.carbs * 4 + t.fat * 9 = c
                /\ t.protein * 4 * 10 = c * 2
                /\ t.carbs * 4 * 10 = c * 5
                /\ t.fat * 9 * 10 = c * 3

\* C8 witness: the targets of the breakfast of a 1780 kcal day, 534 kcal:
\* 26.7 g protein, 66.75 g carbohydrate, 17.8 g fat.
C8_Witness ==
    /\ pc[1] = "score"
    /\ calorie_needs[1] = 1780
    /\ meal_calories[1]["breakfast"] = 534 * Scale
    /\ macro_targets[1]["breakfast"].protein * 10 = 267 * Scale
    /\ macro_targets[1]["breakfast"].carbs * 100 = 6675 * Scale
    /\ macro_targets[1]["breakfast"].fat * 10 = 178 * Scale

\* C9: after each commit, every recipe's usage count is the number of
\* committed meals whose selected list holds it.
C9_LedgerCountsSelections ==
    \A r \in Runs :
      pc[r] \in {"score", "select", "done"} =>
        \A id \in AllIds :
          Get(recipe_usage_count[r], id) = Cardinality(SlotsWith(meal_plan[r], id))

\* C10: a committed meal that had at least 5 not-yet-selected recipes among
\* its 20 best-scoring candidates holds 5 pairwise distinct recipes, none of
\* them selected for an earlier meal; so a recipe is selected again only by
\* a meal that had fewer than 5.
C10_ReuseOnlyByBackfill ==
    \A r \in Runs :
      \A j \in Committed(r) :
        candidates[r][Meals[j]] >= RecipesPerMeal =>
          /\ Cardinality(Range(meal_plan[r][Meals[j]])) = RecipesPerMeal
          /\ \A i \in Committed(r) :
               i < j => Range(meal_plan[r][Meals[i]])
                          \cap Range(meal_plan[r][Meals[j]]) = {}

\* C10 witness: a returned plan whose lunch had at least 5 unused candidates
\* and whose dinner, with fewer than 5, took recipes of the breakfast again.
C10_Witness ==
    /\ pc[1] = "done"
    /\ candidates[1]["lunch"] >= RecipesPerMeal
    /\ candidates[1]["dinner"] < RecipesPerMeal
    /\ Range(meal_plan[1]["breakfast"]) \cap Range(meal_plan[1]["dinner"]) # {}
    /\ Range(meal_plan[1]["breakfast"]) \cap Range(meal_plan[1]["lunch"]) = {}

\* Reachable: a returned plan none of whose meals needed line 148.
PlanWithoutBackfill ==
    /\ pc[1] = "done"
    /\ \A m \in Range(Meals) : candidates[1][m] >= RecipesPerMeal

\* Reachable under SpecConc: a call ranked on the score column the other
\* call wrote.
StaleRanking == \E r \in Runs : ranked_by[r][1] \notin {0, r}

====
